---- MODULE Spec2Model ----
(***************************************************************************)
(* Ragnar: the model provisioner (src/src/ai/ollama_client.py) and the     *)
(* orchestrator (src/src/program.py, src/src/main.py).                     *)
(*                                                                         *)
(* SpecOllama runs OllamaClient.__init__ against a backend whose replies   *)
(* are drawn from bounded sets, then one operation of the client.  Spec    *)
(* runs main.py from the state left by `program = Program()`, with the     *)
(* service table as a parameter.  SpecMain runs main.py from its first     *)
(* line, with the service table the repository builds (none).              *)
(* SpecService runs start(), run() and stop() of BaseService objects, and  *)
(* SpecScheduler the scheduler and its job.                                *)
(***************************************************************************)
EXTENDS Integers, Sequences, FiniteSets, TLC

VARIABLES
    \* ---- backend, as seen by OllamaClient.__init__ ----
    bConnect,          \* which statement of the try block (lines 35-40) raises, if any
    bList,             \* the "models" list the backend returns to list()
    bPs,               \* the reply of ps(): the resident models, or a failure
    \* ---- OllamaClient ----
    opc,               \* position inside OllamaClient.__init__
    ollamaInitialized, \* self.initialized
    hasLlmAxe,         \* self.llm_axe is bound
    hasClient,         \* self.client is bound
    available_models,  \* self.available_models
    running_models,    \* self.running_models
    loopModel,         \* the loop variable `model` of lines 46-50 (<<>> = unbound)
    psText,            \* the value of `running_model` (line 52)
    backendCalls,      \* pull / generate calls received by the backend, in order
    settingsStream,    \* settings.ollama.stream
    chatReq,           \* the last request received by the backend after __init__
                       \* (with the caller's own stream argument under `asked`)
    chatOut,           \* how the last call of an operation of the client ended
    \* ---- Program (program.py) and the main thread (main.py) ----
    pc,                \* position of the main thread in main() / Program.start
    initialized,       \* Program.initialized
    running,           \* Program.running
    hasServices,       \* the attribute Program.services is bound (line 29 was reached)
    services,          \* Program.services: the registered services, in dict order
    svc,               \* per service: initialized, running, thread, valid
    startIdx,          \* position of the loop of lines 62-63
    thread,            \* the Program thread: "new", "started", "loop" or "dead"
    sched,             \* Program.scheduler: "none", "built", "running" or "shutdown"
    stack,             \* executions of Program.stop on the main thread, innermost last
    signals,           \* termination signals delivered so far
    stopLog,           \* the last executions of Program.stop that ended, oldest first
    \* ---- `program = Program()` (main.py line 7, program.py lines 18-35) ----
    ipc,               \* position inside Program.__init__
    env,               \* what the DiscordService constructor and client.run meet
    discord,           \* the DiscordService object
    caught,            \* the exception that reached the except clause of line 34
    \* ---- one BaseService called from outside the orchestrator ----
    svcCall,           \* per service: the stop() call in progress (the service as
                       \* the call found it), <<>> when there is none
    svcLog,            \* per service: the stop() calls that ended, oldest first
    \* ---- the scheduler's job (program.py lines 74-92) ----
    jobNext,           \* number of the next firing of the job
    jobRunning,        \* the firings of the job that are executing
    jobLog             \* what the scheduler did with each firing (and how late the
                       \* firing was), and each completion

ollamaVars == <<bConnect, bList, bPs, opc, ollamaInitialized, hasLlmAxe, hasClient,
                available_models, running_models, loopModel, psText, backendCalls,
                settingsStream, chatReq, chatOut>>

progVars == <<pc, initialized, running, hasServices, services, svc, startIdx, thread,
              sched, stack, signals, stopLog>>

ctorVars == <<ipc, env, discord, caught>>

callVars == <<svcCall, svcLog>>

jobVars == <<jobNext, jobRunning, jobLog>>

auxVars == <<ctorVars, callVars, jobVars>>

vars == <<ollamaVars, progVars, auxVars>>

-----------------------------------------------------------------------------
\* Bounds of the backend replies.
NumNames == 2
NumDigests == 2
MaxListed == 2
MaxResident == 1
\* Bounds of the orchestrator's environment.
MaxServices == 2
MaxSignals == 1
\* Bound of the scheduler's run: the firings of the job that become due.
MaxFirings == 4

NameTable == <<"llama3.2", "m1", "m2", "m3">>
DigestTable == <<"d1", "d2", "d3", "d4">>

ModelNames == {NameTable[i] : i \in 1..NumNames}
Digests == {DigestTable[i] : i \in 1..NumDigests}
\* A modified_at timestamp "<date>T<time>", kept as the two parts around the "T".
ModifiedAt == <<"2024-05-01", "08:00:00Z">>

\* The entries list() can return.
RawModels == {[name |-> n, digest |-> d, modified_at |-> ModifiedAt] :
                  n \in ModelNames, d \in Digests}

\* The entries ps() can return.
ResidentModels == {m \in RawModels : m.digest = DigestTable[1]}

SeqsUpTo(S, n) == UNION {[1..k -> S] : k \in 0..n}

\* A reply of ps(): [ok |-> TRUE, models |-> resident models], or the failed call.
PsError == [ok |-> FALSE, models |-> <<>>]
PsReplies == {[ok |-> TRUE, models |-> ms] : ms \in SeqsUpTo(ResidentModels, MaxResident)}
                 \cup {PsError}
NoModelsText == <<"No models are currently loaded in memory.">>

FallbackModel == "llama3.2"

-----------------------------------------------------------------------------
\* Services (services/base.py) and the orchestrator's state.

ServiceTable == <<"s1", "s2", "s3", "s4">>
ServiceNames == {ServiceTable[i] : i \in 1..MaxServices}

\* BaseService.__init__ (lines 12-22): running = True, the thread not started,
\* initialized = what setup() returned (False when it raised).  `valid` is what
\* validate() returns; it turns true when the configuration is supplied and
\* is false for as long as it has always been false.
NewService(isInit, isValid) ==
    [initialized |-> isInit, running |-> TRUE, thread |-> "new", valid |-> isValid]

UnusedService == NewService(FALSE, FALSE)

\* No DiscordService object, and nothing known of its environment.
NoDiscord == [built |-> FALSE, initialized |-> FALSE, hasClient |-> FALSE]
NoEnv == [ollama |-> TRUE, token |-> FALSE, setup |-> "ok", run |-> "returns"]

-----------------------------------------------------------------------------
\* ModelInfo and the construction of the local view.

\* _create_model_info: modified_at keeps the part before the "T".
CreateModelInfo(model) ==
    [name |-> model.name, modified_at |-> model.modified_at[1], digest |-> model.digest]

\* `x in list` on a list of pydantic models compares with BaseModel.__eq__,
\* i.e. every field; ModelInfo overrides __hash__ only, which lists never use.
ModelInfoEq(a, b) == a = b

InList(info, lst) == \E i \in 1..Len(lst) : ModelInfoEq(info, lst[i])

\* Lines 46-50: append each converted entry that is not yet in the list.
RECURSIVE AppendNew(_, _)
AppendNew(models, acc) ==
    IF models = <<>> THEN acc
    ELSE LET info == CreateModelInfo(Head(models))
         IN AppendNew(Tail(models), IF InList(info, acc) THEN acc ELSE Append(acc, info))

BuildAvailable(models) == AppendNew(models, <<>>)

\* One formatted block of list_running_models (lines 215-228), as its fields.
FormatRunning(model) == <<"Name: ", model.name, "Digest: ", model.digest>>

RECURSIVE JoinBlocks(_)
JoinBlocks(models) ==
    IF models = <<>> THEN <<>>
    ELSE IF Len(models) = 1 THEN FormatRunning(Head(models))
    ELSE FormatRunning(Head(models)) \o <<"\n\n">> \o JoinBlocks(Tail(models))

\* list_running_models: the text it returns for a reply of ps().
ListRunningModels(client, reply) ==
    IF ~client \/ ~reply.ok THEN <<"Error listing running models: ">>
    ELSE IF reply.models = <<>> THEN NoModelsText
    ELSE JoinBlocks(reply.models)

\* Python truthiness of a str.
Truthy(text) == text # <<>>

\* The test of lines 53-56.
SeesRunning(text) == Truthy(text) /\ text # NoModelsText

-----------------------------------------------------------------------------
\* OllamaClient.__init__, one action per backend interaction.

ConnectOutcomes == {"ok", "no_llm_axe", "no_client", "no_agent"}

OllamaInit ==
    /\ bConnect \in ConnectOutcomes
    /\ bList \in SeqsUpTo(RawModels, MaxListed)
    /\ bPs \in PsReplies
    /\ settingsStream \in BOOLEAN
    /\ opc = "connect"
    /\ ollamaInitialized = FALSE
    /\ hasLlmAxe = FALSE
    /\ hasClient = FALSE
    /\ available_models = <<>>
    /\ running_models = <<>>
    /\ loopModel = <<>>
    /\ psText = <<>>
    /\ backendCalls = <<>>
    /\ chatReq = <<>>
    /\ chatOut = "none"
    \* no Program object yet
    /\ pc = "import"
    /\ initialized = FALSE
    /\ running = FALSE
    /\ hasServices = FALSE
    /\ services = <<>>
    /\ svc = [s \in ServiceNames |-> UnusedService]
    /\ startIdx = 1
    /\ thread = "new"
    /\ sched = "none"
    /\ stack = <<>>
    /\ signals = 0
    /\ stopLog = <<>>
    /\ ipc = "ollama"
    /\ env = NoEnv
    /\ discord = NoDiscord
    /\ caught = "none"
    /\ svcCall = [s \in ServiceNames |-> <<>>]
    /\ svcLog = [s \in ServiceNames |-> <<>>]
    /\ jobNext = 1
    /\ jobRunning = {}
    /\ jobLog = <<>>

\* Lines 34-42: the try block; an exception leaves what was assigned before it.
OllamaConnect ==
    /\ opc = "connect"
    /\ hasLlmAxe' = (bConnect # "no_llm_axe")
    /\ hasClient' = (bConnect \in {"ok", "no_agent"})
    /\ ollamaInitialized' = (bConnect = "ok")
    /\ opc' = "list"
    /\ UNCHANGED <<progVars, auxVars>>
    /\ UNCHANGED <<bConnect, bList, bPs, available_models, running_models, loopModel,
                   psText, backendCalls, settingsStream, chatReq, chatOut>>

\* Lines 44-50: list() and the building of available_models.
OllamaListOk ==
    /\ opc = "list"
    /\ hasLlmAxe
    /\ available_models' = BuildAvailable(bList)
    /\ loopModel' = IF bList = <<>> THEN <<>> ELSE <<bList[Len(bList)]>>
    /\ opc' = "ps"
    /\ UNCHANGED <<progVars, auxVars>>
    /\ UNCHANGED <<bConnect, bList, bPs, ollamaInitialized, hasLlmAxe, hasClient,
                   running_models, psText, backendCalls, settingsStream, chatReq, chatOut>>

\* Line 44 raises: self.llm_axe is unbound, or the backend rejects list().
OllamaListRaises ==
    /\ opc = "list"
    /\ opc' = "raised"
    /\ UNCHANGED <<progVars, auxVars>>
    /\ UNCHANGED <<bConnect, bList, bPs, ollamaInitialized, hasLlmAxe, hasClient,
                   available_models, running_models, loopModel, psText, backendCalls,
                   settingsStream, chatReq, chatOut>>

\* Line 52.
OllamaPs ==
    /\ opc = "ps"
    /\ psText' = ListRunningModels(hasClient, bPs)
    /\ opc' = "branch"
    /\ UNCHANGED <<progVars, auxVars>>
    /\ UNCHANGED <<bConnect, bList, bPs, ollamaInitialized, hasLlmAxe, hasClient,
                   available_models, running_models, loopModel, backendCalls,
                   settingsStream, chatReq, chatOut>>

\* Lines 53-60: something is reported resident; `model` is the loop variable
\* left by lines 46-50, unbound when the list was empty (NameError).
OllamaAdoptRunning ==
    /\ opc = "branch"
    /\ SeesRunning(psText)
    /\ IF loopModel = <<>>
       THEN /\ opc' = "raised"
            /\ UNCHANGED running_models
       ELSE /\ opc' = "done"
            /\ running_models' =
                   IF InList(CreateModelInfo(loopModel[1]), running_models)
                   THEN running_models
                   ELSE Append(running_models, CreateModelInfo(loopModel[1]))
    /\ UNCHANGED <<progVars, auxVars>>
    /\ UNCHANGED <<bConnect, bList, bPs, ollamaInitialized, hasLlmAxe, hasClient,
                   available_models, loopModel, psText, backendCalls, settingsStream,
                   chatReq, chatOut>>

\* Mutant: the last entry of the list instead of the first.
LastAvailable(avail) == avail[Len(avail)].name

\* The name line 67 passes to load_model.
FirstAvailable(avail) == avail[1].name

\* Lines 63-67 and load_model (lines 244-246): generate(model=name).
OllamaLoadFirst ==
    /\ opc = "branch"
    /\ ~SeesRunning(psText)
    /\ available_models # <<>>
    /\ backendCalls' = Append(backendCalls, <<"load", FirstAvailable(available_models)>>)
    /\ \E ok \in BOOLEAN : opc' = IF ok /\ hasClient THEN "done" ELSE "raised"
    /\ UNCHANGED <<progVars, auxVars>>
    /\ UNCHANGED <<bConnect, bList, bPs, ollamaInitialized, hasLlmAxe, hasClient,
                   available_models, running_models, loopModel, psText, settingsStream,
                   chatReq, chatOut>>

\* Mutant: the fallback is loaded without having been pulled.
OllamaPullFallbackOmitted ==
    /\ opc = "branch"
    /\ ~SeesRunning(psText)
    /\ available_models = <<>>
    /\ opc' = "pulled"
    /\ UNCHANGED <<progVars, auxVars>>
    /\ UNCHANGED <<bConnect, bList, bPs, ollamaInitialized, hasLlmAxe, hasClient,
                   available_models, running_models, loopModel, psText, backendCalls,
                   settingsStream, chatReq, chatOut>>

\* Lines 68-70 and pull_model (lines 174-180).
OllamaPullFallback ==
    /\ opc = "branch"
    /\ ~SeesRunning(psText)
    /\ available_models = <<>>
    /\ backendCalls' = Append(backendCalls, <<"pull", FallbackModel>>)
    /\ \E ok \in BOOLEAN : opc' = IF ok /\ hasClient THEN "pulled" ELSE "raised"
    /\ UNCHANGED <<progVars, auxVars>>
    /\ UNCHANGED <<bConnect, bList, bPs, ollamaInitialized, hasLlmAxe, hasClient,
                   available_models, running_models, loopModel, psText, settingsStream,
                   chatReq, chatOut>>

\* Lines 71-72.
OllamaLoadFallback ==
    /\ opc = "pulled"
    /\ backendCalls' = Append(backendCalls, <<"load", FallbackModel>>)
    /\ \E ok \in BOOLEAN : opc' = IF ok THEN "done" ELSE "raised"
    /\ UNCHANGED <<progVars, auxVars>>
    /\ UNCHANGED <<bConnect, bList, bPs, ollamaInitialized, hasLlmAxe, hasClient,
                   available_models, running_models, loopModel, psText, settingsStream,
                   chatReq, chatOut>>

-----------------------------------------------------------------------------
\* OllamaClient.chat (lines 100-135).

None == <<>>
Some(x) == <<x>>
StreamArgs == {None, Some(TRUE), Some(FALSE)}
ToolArgs == {None, Some(<<>>), Some(<<"web_search">>)}

\* `if tools:` - None and the empty list are both falsy.
ToolsGiven(tools) == tools # None /\ tools[1] # <<>>

\* Mutant: the tools branch passes the caller's flag like the other branch.
ChatStreamAsAsked(stream, tools, default) ==
    IF stream # None THEN stream[1] ELSE default

\* The stream flag of the request (lines 119 and 129).
ChatStream(stream, tools, default) ==
    IF ToolsGiven(tools) THEN FALSE
    ELSE IF stream # None THEN stream[1] ELSE default

\* The operations of the client keep no state between calls: each is taken
\* as the first call on the client __init__ has left.
Chat(stream, tools) ==
    /\ opc = "done"
    /\ chatOut = "none"
    /\ IF ~ollamaInitialized
       THEN /\ chatOut' = "not_initialized"
            /\ UNCHANGED chatReq
       ELSE /\ chatReq' = Some([op |-> "chat", tools |-> tools,
                                stream |-> ChatStream(stream, tools, settingsStream),
                                asked |-> stream])
            /\ \E ok \in BOOLEAN : chatOut' = IF ok THEN "returned" ELSE "response_error"
    /\ UNCHANGED <<progVars, auxVars>>
    /\ UNCHANGED <<bConnect, bList, bPs, opc, ollamaInitialized, hasLlmAxe, hasClient,
                   available_models, running_models, loopModel, psText, backendCalls,
                   settingsStream>>

\* The operations that go straight to self.client: generate (lines 137-143),
\* copy_model, list_models, pull_model, delete_model, generate_embeddings
\* (156-202), load_model and unload_model (244-250).
ClientOps == {"generate", "copy_model", "list_models", "pull_model", "delete_model",
              "generate_embeddings", "load_model", "unload_model"}

\* copy_model catches the backend's ResponseError and returns None (lines
\* 161-163); the others log it and raise it again, or do not catch it.
CallOutcomes(op) == IF op = "copy_model" THEN {"returned"} ELSE {"returned", "response_error"}

\* Mutant: load_model and unload_model keep running_models up to date.
ClientCallTracking(op) ==
    /\ opc = "done"
    /\ chatOut = "none"
    /\ hasClient
    /\ chatReq' = Some([op |-> op, tools |-> None, stream |-> FALSE, asked |-> None])
    /\ chatOut' = "returned"
    /\ running_models' = IF op = "unload_model" THEN <<>>
                         ELSE IF op = "load_model" /\ available_models # <<>>
                         THEN <<available_models[1]>>
                         ELSE running_models
    /\ UNCHANGED <<progVars, auxVars>>
    /\ UNCHANGED <<bConnect, bList, bPs, opc, ollamaInitialized, hasLlmAxe, hasClient,
                   available_models, loopModel, psText, backendCalls, settingsStream>>

\* One of them is called on the constructed client: self.client.<op>(...),
\* an AttributeError when self.client was never bound.  None of them reads or
\* writes available_models or running_models.
ClientCall(op) ==
    /\ opc = "done"
    /\ chatOut = "none"
    /\ IF ~hasClient
       THEN /\ chatOut' = "attribute_error"
            /\ UNCHANGED chatReq
       ELSE /\ chatReq' = Some([op |-> op, tools |-> None, stream |-> FALSE, asked |-> None])
            /\ chatOut' \in CallOutcomes(op)
    /\ UNCHANGED <<progVars, auxVars>>
    /\ UNCHANGED <<bConnect, bList, bPs, opc, ollamaInitialized, hasLlmAxe, hasClient,
                   available_models, running_models, loopModel, psText, backendCalls,
                   settingsStream>>

OllamaNext ==
    \/ OllamaConnect
    \/ OllamaListOk
    \/ OllamaListRaises
    \/ OllamaPs
    \/ OllamaAdoptRunning
    \/ OllamaLoadFirst
    \/ OllamaPullFallback
    \/ OllamaLoadFallback
    \/ \E stream \in StreamArgs, tools \in ToolArgs : Chat(stream, tools)
    \/ \E op \in ClientOps : ClientCall(op)

SpecOllama == OllamaInit /\ [][OllamaNext]_vars

-----------------------------------------------------------------------------
\* What OllamaClient.__init__ leaves behind when it returns, as a function of
\* the backend's replies (`returns` is false when it necessarily raises).
AfterOllamaInit(connect, listed, ps) ==
    LET text == ListRunningModels(connect \in {"ok", "no_agent"}, ps)
    IN [returns     |-> connect # "no_llm_axe" /\ (SeesRunning(text) => listed # <<>>),
        initialized |-> connect = "ok",
        available   |-> BuildAvailable(listed),
        running     |-> IF SeesRunning(text) /\ listed # <<>>
                        THEN <<CreateModelInfo(listed[Len(listed)])>>
                        ELSE <<>>]

-----------------------------------------------------------------------------
\* Program.__init__ (program.py lines 18-35) and main.py.

StartPcs == {"start_validate", "start_services", "start_build", "start_thread",
             "start_scheduler", "start_mark"}

\* The services a Program can hold: the first n names of the table, each in
\* any state BaseService.__init__ can leave it in.
ServiceStates == {NewService(i, v) : i, v \in BOOLEAN}

Registered(n) == [i \in 1..n |-> ServiceTable[i]]

InSeq(x, seq) == \E i \in 1..Len(seq) : seq[i] = x

\* The orchestrator reads nothing of a model but its name, and of the
\* provisioner's view only running_models, which holds at most the last listed
\* model: its runs start from backends that list at most one model.
StartModels == {m \in RawModels : m.digest = DigestTable[1]}

\* The state after `program = Program()` (main.py line 7).  Line 29 creates
\* the service table and nothing in the repository fills it; the table is a
\* parameter here.  A provisioner that is not initialized makes __init__ return
\* at line 27, before the table exists.  The backend's replies to the
\* provisioner's constructor are not kept.
Init ==
    /\ \E connect \in ConnectOutcomes, listed \in SeqsUpTo(StartModels, 1),
          ps \in PsReplies :
          LET r == AfterOllamaInit(connect, listed, ps)
          IN /\ r.returns
             /\ ollamaInitialized = r.initialized
             /\ hasLlmAxe = TRUE
             /\ hasClient = (connect # "no_client")
             /\ available_models = r.available
             /\ running_models = r.running
    /\ bConnect = "ok"
    /\ bList = <<>>
    /\ bPs = PsError
    /\ opc = "done"
    /\ loopModel = <<>>
    /\ psText = <<>>
    /\ backendCalls = <<>>
    /\ settingsStream = FALSE
    /\ chatReq = <<>>
    /\ chatOut = "none"
    /\ hasServices = ollamaInitialized
    /\ \E n \in 0..MaxServices :
          /\ ollamaInitialized \/ n = 0
          /\ services = Registered(n)
          /\ svc \in [ServiceNames -> ServiceStates]
          /\ \A s \in ServiceNames : InSeq(s, services) \/ svc[s] = UnusedService
    /\ pc = "start_validate"
    /\ initialized = FALSE
    /\ running = FALSE
    /\ startIdx = 1
    /\ thread = "new"
    /\ sched = "none"
    /\ stack = <<>>
    /\ signals = 0
    /\ stopLog = <<>>
    /\ ipc = "returned"
    /\ env = NoEnv
    /\ discord = NoDiscord
    /\ caught = "none"
    /\ svcCall = [s \in ServiceNames |-> <<>>]
    /\ svcLog = [s \in ServiceNames |-> <<>>]
    /\ jobNext = 1
    /\ jobRunning = {}
    /\ jobLog = <<>>

\* Mutant: all() instead of any(), which is true of an empty table.
ValidateServicesAll == \A i \in 1..Len(services) : svc[services[i]].valid

\* Mutant: start() does not wait for a valid service.
ValidateServicesSkipped == TRUE

\* validate_services (lines 37-41).
ValidateServices == \E i \in 1..Len(services) : svc[services[i]].valid

\* An operator supplies the configuration a service was waiting for, while
\* start() polls for it.
SupplyConfig(s) ==
    /\ pc = "start_validate"
    /\ InSeq(s, services)
    /\ ~svc[s].valid
    /\ svc' = [svc EXCEPT ![s].valid = TRUE]
    /\ UNCHANGED <<pc, initialized, running, hasServices, services, startIdx, thread,
                   sched, stack, signals, stopLog>>
    /\ UNCHANGED <<ollamaVars, auxVars>>

\* Program.start, line 53: self.services is unbound, the AttributeError is
\* caught by main() (main.py lines 23-24).
StartNoServices ==
    /\ pc = "start_validate"
    /\ stack = <<>>
    /\ ~hasServices
    /\ pc' = "finally"
    /\ UNCHANGED <<initialized, running, hasServices, services, svc, startIdx, thread,
                   sched, stack, signals, stopLog>>
    /\ UNCHANGED <<ollamaVars, auxVars>>

\* Lines 53-59: the loop is left once validate_services() is true.
StartValidated ==
    /\ pc = "start_validate"
    /\ stack = <<>>
    /\ hasServices
    /\ ValidateServices
    /\ pc' = "start_services"
    /\ startIdx' = 1
    /\ UNCHANGED <<initialized, running, hasServices, services, svc, thread, sched,
                   stack, signals, stopLog>>
    /\ UNCHANGED <<ollamaVars, auxVars>>

\* Lines 61-63: service.start() for each service of the table.
StartService ==
    /\ pc = "start_services"
    /\ stack = <<>>
    /\ startIdx <= Len(services)
    /\ svc' = [svc EXCEPT ![services[startIdx]].thread = "alive"]
    /\ startIdx' = startIdx + 1
    /\ pc' = IF startIdx = Len(services) THEN "start_build" ELSE pc
    /\ UNCHANGED <<initialized, running, hasServices, services, thread, sched, stack,
                   signals, stopLog>>
    /\ UNCHANGED <<ollamaVars, auxVars>>

\* Lines 65-67: the scheduler is created and its jobs added.
StartBuild ==
    /\ pc = "start_build"
    /\ stack = <<>>
    /\ sched' = "built"
    /\ pc' = "start_thread"
    /\ UNCHANGED <<initialized, running, hasServices, services, svc, startIdx, thread,
                   stack, signals, stopLog>>
    /\ UNCHANGED <<ollamaVars, auxVars>>

\* Line 69: super().start().
StartThread ==
    /\ pc = "start_thread"
    /\ stack = <<>>
    /\ thread' = "started"
    /\ pc' = "start_scheduler"
    /\ UNCHANGED <<initialized, running, hasServices, services, svc, startIdx, sched,
                   stack, signals, stopLog>>
    /\ UNCHANGED <<ollamaVars, auxVars>>

\* Line 70: self.scheduler.start().
StartScheduler ==
    /\ pc = "start_scheduler"
    /\ stack = <<>>
    /\ sched' = "running"
    /\ pc' = "start_mark"
    /\ UNCHANGED <<initialized, running, hasServices, services, svc, startIdx, thread,
                   stack, signals, stopLog>>
    /\ UNCHANGED <<ollamaVars, auxVars>>

\* Lines 71-72; start() returns and main() enters its finally clause.
StartMark ==
    /\ pc = "start_mark"
    /\ stack = <<>>
    /\ initialized' = TRUE
    /\ pc' = "finally"
    /\ UNCHANGED <<running, hasServices, services, svc, startIdx, thread, sched, stack,
                   signals, stopLog>>
    /\ UNCHANGED <<ollamaVars, auxVars>>

\* Program.run, line 96.
ProgramRunBegin ==
    /\ thread = "started"
    /\ running' = TRUE
    /\ thread' = "loop"
    /\ UNCHANGED <<pc, initialized, hasServices, services, svc, startIdx, sched, stack,
                   signals, stopLog>>
    /\ UNCHANGED <<ollamaVars, auxVars>>

\* Program.run, lines 100-101: the loop ends once running is false.
ProgramRunExit ==
    /\ thread = "loop"
    /\ ~running
    /\ thread' = "dead"
    /\ UNCHANGED <<pc, initialized, running, hasServices, services, svc, startIdx,
                   sched, stack, signals, stopLog>>
    /\ UNCHANGED <<ollamaVars, auxVars>>

\* A service's run() returns once its running flag is false.
ServiceRunExit(s) ==
    /\ svc[s].thread = "alive"
    /\ ~svc[s].running
    /\ svc' = [svc EXCEPT ![s].thread = "dead"]
    /\ UNCHANGED <<pc, initialized, running, hasServices, services, startIdx, thread,
                   sched, stack, signals, stopLog>>
    /\ UNCHANGED <<ollamaVars, auxVars>>

-----------------------------------------------------------------------------
\* Program.stop (lines 103-122), one frame of `stack` per execution.

NewFrame(by) == [by |-> by, at |-> "entry", i |-> 0, init |-> FALSE, trace |-> <<>>]

Top == stack[Len(stack)]
SetTop(f) == [stack EXCEPT ![Len(stack)] = f]

\* Mutant: the services are stopped before the models are unloaded.
StopOrderServicesFirst == <<"services", "unload", "scheduler">>

\* The order of the three parts of stop(): lines 110-113, 115-117, 119-120.
StopOrder == <<"unload", "services", "scheduler">>

PhaseAfter(ph) ==
    LET k == CHOOSE k \in 1..Len(StopOrder) : StopOrder[k] = ph
    IN IF k < Len(StopOrder) THEN StopOrder[k + 1] ELSE "return"

\* The next statement of stop() that calls out, from item i of part ph on:
\* loops over nothing, services that are not initialized (line 116) and a
\* scheduler that is not running (line 119) are passed over.
RECURSIVE Settle(_, _)
Settle(ph, i) ==
    CASE ph = "unload" ->
            IF i <= Len(running_models) THEN <<ph, i>> ELSE Settle(PhaseAfter(ph), 1)
      [] ph = "services" ->
            IF i > Len(services) THEN Settle(PhaseAfter(ph), 1)
            ELSE IF svc[services[i]].initialized THEN <<ph, i>>
            ELSE Settle(ph, i + 1)
      [] ph = "scheduler" ->
            IF i = 1 /\ sched = "running" THEN <<ph, i>> ELSE Settle(PhaseAfter(ph), 1)
      [] OTHER -> <<"return", 0>>

At(f, pos) == [f EXCEPT !.at = pos[1], !.i = pos[2]]
Traced(f, event) == [f EXCEPT !.trace = Append(f.trace, event)]

\* main.py lines 26-28: the finally clause calls program.stop().
MainStop ==
    /\ pc = "finally"
    /\ stack = <<>>
    /\ stack' = <<NewFrame("main")>>
    /\ pc' = "stop"
    /\ UNCHANGED <<initialized, running, hasServices, services, svc, startIdx, thread,
                   sched, signals, stopLog>>
    /\ UNCHANGED <<ollamaVars, auxVars>>

\* main.py lines 10-17: SIGINT or SIGTERM; the handler runs on the main thread,
\* on top of whatever it was executing, and calls program.stop().
Signal ==
    /\ pc \notin {"import", "exit"}
    /\ signals < MaxSignals
    /\ signals' = signals + 1
    /\ stack' = Append(stack, NewFrame("signal"))
    /\ UNCHANGED <<pc, initialized, running, hasServices, services, svc, startIdx,
                   thread, sched, stopLog>>
    /\ UNCHANGED <<ollamaVars, auxVars>>

\* Lines 105-108.
StopEnter ==
    /\ stack # <<>>
    /\ Top.at = "entry"
    /\ running' = FALSE
    /\ stack' = SetTop(IF initialized
                       THEN [At(Top, Settle(StopOrder[1], 1)) EXCEPT !.init = TRUE]
                       ELSE At(Top, <<"return", 0>>))
    /\ UNCHANGED <<pc, initialized, hasServices, services, svc, startIdx, thread, sched,
                   signals, stopLog>>
    /\ UNCHANGED <<ollamaVars, auxVars>>

\* Lines 111-113 and unload_model (ollama_client.py lines 248-250): the
\* generate call either returns or raises, and nothing in stop() catches it.
StopUnload ==
    /\ stack # <<>>
    /\ Top.at = "unload"
    /\ LET f == Traced(Top, <<"unload", running_models[Top.i].name>>)
       IN \E ok \in BOOLEAN :
              stack' = SetTop(IF ok THEN At(f, Settle("unload", Top.i + 1))
                              ELSE At(f, <<"raise", 0>>))
    /\ UNCHANGED <<pc, initialized, running, hasServices, services, svc, startIdx,
                   thread, sched, signals, stopLog>>
    /\ UNCHANGED <<ollamaVars, auxVars>>

\* Line 117, service.stop(): the service's own stop() may raise; otherwise
\* BaseService.stop (base.py lines 34-38) clears the flag and joins the thread,
\* which raises when the thread was never started.
StopService ==
    /\ stack # <<>>
    /\ Top.at = "services"
    /\ LET s == services[Top.i]
           f == Traced(Top, <<"stop", s>>)
       IN \/ /\ stack' = SetTop(At(f, <<"raise", 0>>))
             /\ UNCHANGED svc
          \/ /\ svc' = [svc EXCEPT ![s].running = FALSE]
             /\ stack' = SetTop(IF svc[s].thread = "new" THEN At(f, <<"raise", 0>>)
                                ELSE At(f, <<"join", Top.i>>))
    /\ UNCHANGED <<pc, initialized, running, hasServices, services, startIdx, thread,
                   sched, signals, stopLog>>
    /\ UNCHANGED <<ollamaVars, auxVars>>

\* Mutant: stop() does not wait for the thread.
JoinReturnsAtOnce(th) == TRUE

\* base.py line 38: join() returns when the service's thread has ended.
JoinReturns(th) == th = "dead"

StopJoined ==
    /\ stack # <<>>
    /\ Top.at = "join"
    /\ JoinReturns(svc[services[Top.i]].thread)
    /\ stack' = SetTop(At(Top, Settle("services", Top.i + 1)))
    /\ UNCHANGED <<pc, initialized, running, hasServices, services, svc, startIdx,
                   thread, sched, signals, stopLog>>
    /\ UNCHANGED <<ollamaVars, auxVars>>

\* Lines 119-120.
StopScheduler ==
    /\ stack # <<>>
    /\ Top.at = "scheduler"
    /\ sched' = "shutdown"
    /\ stack' = SetTop(At(Traced(Top, <<"shutdown", "scheduler">>),
                          Settle(PhaseAfter("scheduler"), 1)))
    /\ UNCHANGED <<pc, initialized, running, hasServices, services, svc, startIdx,
                   thread, signals, stopLog>>
    /\ UNCHANGED <<ollamaVars, auxVars>>

\* The orchestrator state the claims compare between calls of stop().
Snapshot ==
    [initialized |-> initialized,
     running     |-> running,
     services    |-> [s \in ServiceNames |->
                         [initialized |-> svc[s].initialized, running |-> svc[s].running]],
     scheduler   |-> (sched = "running"),
     available   |-> available_models,
     resident    |-> running_models]

LastTwo(log) == IF Len(log) > 2 THEN SubSeq(log, Len(log) - 1, Len(log)) ELSE log

\* An execution of stop() ends.  Called from main()'s finally clause, a return
\* leads to program.join() and an exception leaves main().  Called from the
\* signal handler, a return is followed by sys.exit(0), and SystemExit (or the
\* exception stop() raised) unwinds everything the handler interrupted: to
\* main()'s finally clause when that was Program.start, out of the process when
\* main() was already in its finally clause.
StopEnds(outcome) ==
    /\ stack # <<>>
    /\ Top.at = (IF outcome = "returned" THEN "return" ELSE "raise")
    /\ stopLog' = LastTwo(Append(stopLog,
                     [by |-> Top.by, depth |-> Len(stack), outcome |-> outcome,
                      init |-> Top.init, trace |-> Top.trace, after |-> Snapshot]))
    /\ stack' = <<>>
    /\ pc' = IF Top.by = "main"
             THEN (IF outcome = "returned" THEN "join" ELSE "exit")
             ELSE (IF pc \in StartPcs THEN "finally" ELSE "exit")
    /\ UNCHANGED <<initialized, running, hasServices, services, svc, startIdx, thread,
                   sched, signals>>
    /\ UNCHANGED <<ollamaVars, auxVars>>

\* main.py line 29: program.join() returns once the Program thread has ended,
\* and raises RuntimeError when it was never started; either way main() is left.
MainJoin ==
    /\ pc = "join"
    /\ stack = <<>>
    /\ thread \in {"new", "dead"}
    /\ pc' = "exit"
    /\ UNCHANGED <<initialized, running, hasServices, services, svc, startIdx, thread,
                   sched, stack, signals, stopLog>>
    /\ UNCHANGED <<ollamaVars, auxVars>>

Next ==
    \/ \E s \in ServiceNames : SupplyConfig(s)
    \/ StartNoServices
    \/ StartValidated
    \/ StartService
    \/ StartBuild
    \/ StartThread
    \/ StartScheduler
    \/ StartMark
    \/ ProgramRunBegin
    \/ ProgramRunExit
    \/ \E s \in ServiceNames : ServiceRunExit(s)
    \/ MainStop
    \/ Signal
    \/ StopEnter
    \/ StopUnload
    \/ StopService
    \/ StopJoined
    \/ StopScheduler
    \/ StopEnds("returned")
    \/ StopEnds("raised")
    \/ MainJoin

Spec == Init /\ [][Next]_vars

-----------------------------------------------------------------------------
\* The scheduler and its job (program.py lines 65-92, 119-120).  The job is
\* added with the "interval" trigger and max_instances; BackgroundScheduler
\* submits a due firing to its executor unless the job already has
\* max_instances running instances, in which case the firing is skipped.

\* Line 76: the table of scheduled functions (log_cleaner, every hour).
ScheduledFunctions == <<[func |-> "log_cleaner", interval |-> 60 * 60]>>

\* Mutant: a job without a max_instances entry may run twice at a time.
MaxInstancesTwo(config) ==
    IF "max_instances" \in DOMAIN config THEN config.max_instances ELSE 2

\* Line 85: config.get("max_instances", 1).
MaxInstances(config) ==
    IF "max_instances" \in DOMAIN config THEN config.max_instances ELSE 1

\* The orchestrator at program.py line 70: one valid service started, the
\* scheduler built and the job added (lines 65-67), the Program thread started.
SchedulerInit ==
    /\ ollamaInitialized = TRUE
    /\ hasLlmAxe = TRUE
    /\ hasClient = TRUE
    /\ available_models = <<>>
    /\ running_models = <<>>
    /\ bConnect = "ok"
    /\ bList = <<>>
    /\ bPs = PsError
    /\ opc = "done"
    /\ loopModel = <<>>
    /\ psText = <<>>
    /\ backendCalls = <<>>
    /\ settingsStream = FALSE
    /\ chatReq = <<>>
    /\ chatOut = "none"
    /\ hasServices = TRUE
    /\ services = Registered(1)
    /\ svc = [s \in ServiceNames |->
                 IF InSeq(s, Registered(1))
                 THEN [NewService(TRUE, TRUE) EXCEPT !.thread = "alive"]
                 ELSE UnusedService]
    /\ pc = "start_scheduler"
    /\ initialized = FALSE
    /\ running = FALSE
    /\ startIdx = 2
    /\ thread = "started"
    /\ sched = "built"
    /\ stack = <<>>
    /\ signals = 0
    /\ stopLog = <<>>
    /\ ipc = "returned"
    /\ env = NoEnv
    /\ discord = NoDiscord
    /\ caught = "none"
    /\ svcCall = [s \in ServiceNames |-> <<>>]
    /\ svcLog = [s \in ServiceNames |-> <<>>]
    /\ jobNext = 1
    /\ jobRunning = {}
    /\ jobLog = <<>>

\* Line 70: self.scheduler.start().
JobSchedulerStart ==
    /\ sched = "built"
    /\ sched' = "running"
    /\ UNCHANGED <<pc, initialized, running, hasServices, services, svc, startIdx,
                   thread, stack, signals, stopLog>>
    /\ UNCHANGED <<ollamaVars, ctorVars, callVars, jobVars>>

\* Line 88: misfire_grace_time, in seconds.
MisfireGraceTime == 30

\* How late a firing can be when the scheduler gets to it, in seconds.
Delays == {0, MisfireGraceTime, MisfireGraceTime + 1}

\* Mutant: no firing is ever taken to be too late.
MisfiredNever(delay) == FALSE

\* A firing is missed when it is later than the grace time.
Misfired(delay) == delay > MisfireGraceTime

\* A firing of the job becomes due (first at once, line 87, then every
\* interval) and the scheduler gets to it `delay` seconds late: it is skipped
\* if the job already has max_instances running instances; otherwise an
\* instance is started, which calls the function unless the firing is more
\* than misfire_grace_time late (line 88).
JobDue(delay) ==
    /\ sched = "running"
    /\ jobNext <= MaxFirings
    /\ jobNext' = jobNext + 1
    /\ IF Cardinality(jobRunning) < MaxInstances(ScheduledFunctions[1])
       THEN /\ jobRunning' = jobRunning \cup {jobNext}
            /\ jobLog' = Append(jobLog, <<IF Misfired(delay) THEN "missed" ELSE "run",
                                          jobNext, delay>>)
       ELSE /\ jobLog' = Append(jobLog, <<"skip", jobNext, delay>>)
            /\ UNCHANGED jobRunning
    /\ UNCHANGED <<ollamaVars, progVars, ctorVars, callVars>>

\* A running instance of the job returns (log_cleaner contains its errors,
\* utils/logger.py lines 91-112).
JobDone(k) ==
    /\ k \in jobRunning
    /\ jobRunning' = jobRunning \ {k}
    /\ jobLog' = Append(jobLog, <<"done", k>>)
    /\ UNCHANGED jobNext
    /\ UNCHANGED <<ollamaVars, progVars, ctorVars, callVars>>

\* Line 120: shutdown(wait=False); no firing becomes due afterwards, a running
\* instance is left to finish.
JobSchedulerShutdown ==
    /\ sched = "running"
    /\ sched' = "shutdown"
    /\ UNCHANGED <<pc, initialized, running, hasServices, services, svc, startIdx,
                   thread, stack, signals, stopLog>>
    /\ UNCHANGED <<ollamaVars, ctorVars, callVars, jobVars>>

SchedulerNext ==
    \/ JobSchedulerStart
    \/ \E delay \in Delays : JobDue(delay)
    \/ \E k \in 1..MaxFirings : JobDone(k)
    \/ JobSchedulerShutdown

SpecScheduler == SchedulerInit /\ [][SchedulerNext]_vars

-----------------------------------------------------------------------------
\* main.py as the repository builds it: `program = Program()` (line 7), whose
\* constructor builds the one service the repository has, then main().

\* What the constructors meet: whether OllamaClient() returns, whether the
\* Discord token is set (discord.py lines 40-45), whether DiscordService.setup
\* raises, and how client.run(token) ends ("blocks": the bot runs on).
Envs == [ollama : BOOLEAN, token : BOOLEAN, setup : {"ok", "raises"},
         run : {"returns", "raises", "blocks"}]

\* Mutant: the constructor goes on without an initialized provisioner.
ReturnsEarlyNever(ollamaOk) == FALSE

\* program.py lines 25-27.
ReturnsEarly(ollamaOk) == ~ollamaOk

MainInit ==
    /\ env \in Envs
    /\ \E connect \in ConnectOutcomes, listed \in SeqsUpTo(StartModels, 1),
          ps \in PsReplies :
          LET r == AfterOllamaInit(connect, listed, ps)
          IN /\ env.ollama = r.returns
             /\ ollamaInitialized = (r.returns /\ r.initialized)
             /\ hasLlmAxe = (connect # "no_llm_axe")
             /\ hasClient = (connect \in {"ok", "no_agent"})
             /\ available_models = IF r.returns THEN r.available ELSE <<>>
             /\ running_models = IF r.returns THEN r.running ELSE <<>>
    /\ bConnect = "ok"
    /\ bList = <<>>
    /\ bPs = PsError
    /\ opc = "done"
    /\ loopModel = <<>>
    /\ psText = <<>>
    /\ backendCalls = <<>>
    /\ settingsStream = FALSE
    /\ chatReq = <<>>
    /\ chatOut = "none"
    /\ pc = "import"
    /\ initialized = FALSE
    /\ running = FALSE
    /\ hasServices = FALSE
    /\ services = <<>>
    /\ svc = [s \in ServiceNames |-> UnusedService]
    /\ startIdx = 1
    /\ thread = "new"
    /\ sched = "none"
    /\ stack = <<>>
    /\ signals = 0
    /\ stopLog = <<>>
    /\ ipc = "ollama"
    /\ discord = NoDiscord
    /\ caught = "none"
    /\ svcCall = [s \in ServiceNames |-> <<>>]
    /\ svcLog = [s \in ServiceNames |-> <<>>]
    /\ jobNext = 1
    /\ jobRunning = {}
    /\ jobLog = <<>>

\* program.py lines 24-29.  An OllamaClient() that raises ends the import of
\* main.py, and the process with it.
ProgramInitOllama ==
    /\ ipc = "ollama"
    /\ IF ~env.ollama
       THEN /\ ipc' = "crashed"
            /\ pc' = "exit"
            /\ UNCHANGED hasServices
       ELSE IF ReturnsEarly(ollamaInitialized)
       THEN /\ ipc' = "returned"
            /\ UNCHANGED <<pc, hasServices>>
       ELSE /\ ipc' = "discord_init"
            /\ hasServices' = TRUE
            /\ UNCHANGED pc
    /\ UNCHANGED <<initialized, running, services, svc, startIdx, thread, sched, stack,
                   signals, stopLog>>
    /\ UNCHANGED <<env, discord, caught>>
    /\ UNCHANGED <<ollamaVars, callVars, jobVars>>

\* program.py line 32 and DiscordService.__init__ (discord.py lines 12-25):
\* without a token the object is built uninitialized and without a client;
\* setup() is called outside any try block, so an exception it raises leaves
\* the constructor, self.discord stays unbound and line 34 catches it.
DiscordInit ==
    /\ ipc = "discord_init"
    /\ IF ~env.token
       THEN /\ discord' = [built |-> TRUE, initialized |-> FALSE, hasClient |-> FALSE]
            /\ ipc' = "client_run"
            /\ UNCHANGED caught
       ELSE IF env.setup = "raises"
       THEN /\ discord' = NoDiscord
            /\ caught' = "setup"
            /\ ipc' = "returned"
       ELSE /\ discord' = [built |-> TRUE, initialized |-> TRUE, hasClient |-> TRUE]
            /\ ipc' = "client_run"
            /\ UNCHANGED caught
    /\ UNCHANGED env
    /\ UNCHANGED <<ollamaVars, progVars, callVars, jobVars>>

\* program.py lines 33-35: self.discord.client.run(token) inside the try
\* block; it returns when the bot is closed.
ProgramClientRun ==
    /\ ipc = "client_run"
    /\ IF ~discord.hasClient
       THEN caught' = "no_client"
       ELSE /\ env.run # "blocks"
            /\ caught' = IF env.run = "raises" THEN "run" ELSE caught
    /\ ipc' = "returned"
    /\ UNCHANGED <<env, discord>>
    /\ UNCHANGED <<ollamaVars, progVars, callVars, jobVars>>

\* main.py lines 16-23 and 32-34: the handlers are installed and main() calls
\* program.start().
MainBegin ==
    /\ ipc = "returned"
    /\ pc = "import"
    /\ pc' = "start_validate"
    /\ UNCHANGED <<initialized, running, hasServices, services, svc, startIdx, thread,
                   sched, stack, signals, stopLog>>
    /\ UNCHANGED <<ollamaVars, auxVars>>

\* Nothing fills self.services: start() either raises at line 53 or stays in
\* the loop of lines 58-59 until a signal ends it.
MainNext ==
    \/ ProgramInitOllama
    \/ DiscordInit
    \/ ProgramClientRun
    \/ MainBegin
    \/ StartNoServices
    \/ Signal
    \/ StopEnter
    \/ StopEnds("returned")
    \/ MainStop
    \/ MainJoin

SpecMain == MainInit /\ [][MainNext]_vars

-----------------------------------------------------------------------------
\* A BaseService on its own (services/base.py): start(), run() and stop()
\* called on constructed services, one stop() call at a time per service.

\* What a caller of stop() can see of a service.
ServiceView(s) == [running |-> svc[s].running, thread |-> svc[s].thread]

\* validate() plays no part in start(), run() or stop(): the services are
\* taken with a valid configuration.
ServiceInit ==
    /\ svc \in [ServiceNames -> {NewService(i, TRUE) : i \in BOOLEAN}]
    /\ services = Registered(MaxServices)
    /\ hasServices = TRUE
    /\ ollamaInitialized = TRUE
    /\ hasLlmAxe = TRUE
    /\ hasClient = TRUE
    /\ available_models = <<>>
    /\ running_models = <<>>
    /\ bConnect = "ok"
    /\ bList = <<>>
    /\ bPs = PsError
    /\ opc = "done"
    /\ loopModel = <<>>
    /\ psText = <<>>
    /\ backendCalls = <<>>
    /\ settingsStream = FALSE
    /\ chatReq = <<>>
    /\ chatOut = "none"
    /\ pc = "start_validate"
    /\ initialized = FALSE
    /\ running = FALSE
    /\ startIdx = 1
    /\ thread = "new"
    /\ sched = "none"
    /\ stack = <<>>
    /\ signals = 0
    /\ stopLog = <<>>
    /\ ipc = "returned"
    /\ env = NoEnv
    /\ discord = NoDiscord
    /\ caught = "none"
    /\ svcCall = [s \in ServiceNames |-> <<>>]
    /\ svcLog = [s \in ServiceNames |-> <<>>]
    /\ jobNext = 1
    /\ jobRunning = {}
    /\ jobLog = <<>>

\* Thread.start() on a service (as program.py line 63 calls it).
ServiceStart(s) ==
    /\ svc[s].thread = "new"
    /\ svc' = [svc EXCEPT ![s].thread = "alive"]
    /\ UNCHANGED <<pc, initialized, running, hasServices, services, startIdx, thread,
                   sched, stack, signals, stopLog>>
    /\ UNCHANGED <<ollamaVars, auxVars>>

StopResult(s, view, outcome) ==
    [started |-> view.thread # "new", outcome |-> outcome, before |-> view,
     after |-> [running |-> FALSE, thread |-> svc[s].thread]]

\* BaseService.stop (base.py lines 37-38): the flag is cleared, then join(),
\* which raises RuntimeError on a thread that was never started.
ServiceStop(s) ==
    /\ svcCall[s] = <<>>
    /\ svc' = [svc EXCEPT ![s].running = FALSE]
    /\ IF svc[s].thread = "new"
       THEN /\ svcLog' = [svcLog EXCEPT
                             ![s] = LastTwo(Append(@, StopResult(s, ServiceView(s), "raised")))]
            /\ UNCHANGED svcCall
       ELSE /\ svcCall' = [svcCall EXCEPT ![s] = <<ServiceView(s)>>]
            /\ UNCHANGED svcLog
    /\ UNCHANGED <<pc, initialized, running, hasServices, services, startIdx, thread,
                   sched, stack, signals, stopLog>>
    /\ UNCHANGED <<ollamaVars, ctorVars, jobVars>>

\* base.py line 38: join() returns and so does stop().
ServiceJoined(s) ==
    /\ svcCall[s] # <<>>
    /\ JoinReturns(svc[s].thread)
    /\ svcLog' = [svcLog EXCEPT
                     ![s] = LastTwo(Append(@, StopResult(s, svcCall[s][1], "returned")))]
    /\ svcCall' = [svcCall EXCEPT ![s] = <<>>]
    /\ UNCHANGED <<ollamaVars, progVars, ctorVars, jobVars>>

ServiceNext ==
    \/ \E s \in ServiceNames : ServiceStart(s)
    \/ \E s \in ServiceNames : ServiceRunExit(s)
    \/ \E s \in ServiceNames : ServiceStop(s)
    \/ \E s \in ServiceNames : ServiceJoined(s)

SpecService == ServiceInit /\ [][ServiceNext]_vars

-----------------------------------------------------------------------------
\* Properties of the orchestrator's shutdown and start-up, checked under Spec.

\* The place of a call in the order models, services, scheduler.
Rank(event) ==
    CASE event[1] = "unload" -> 1
      [] event[1] = "stop" -> 2
      [] OTHER -> 3

InOrder(trace) ==
    \A p, q \in 1..Len(trace) : p < q => Rank(trace[p]) <= Rank(trace[q])

IsUnload(event) == event[1] = "unload"
IsServiceStop(event) == event[1] = "stop"

UnloadedNames(trace) ==
    LET calls == SelectSeq(trace, IsUnload) IN [i \in 1..Len(calls) |-> calls[i][2]]

RunningNames == [i \in 1..Len(running_models) |-> running_models[i].name]

StoppedServices(trace) ==
    {trace[i][2] : i \in {j \in 1..Len(trace) : IsServiceStop(trace[j])}}

InitializedServices == {s \in ServiceNames : InSeq(s, services) /\ svc[s].initialized}

\* An execution of stop() got past its unload loop.
PastUnload(f) == f.init /\ f.at \in {"services", "join", "scheduler", "return"}

\* C1: in every execution of stop() on an initialized orchestrator, the calls
\* go out in the order unload_model, service stop(), scheduler shutdown, and
\* an execution that is past its unload loop, or has ended, has called
\* unload_model exactly once for each entry of running_models.
C1_ShutdownOrder ==
    /\ \A k \in 1..Len(stack) :
          /\ InOrder(stack[k].trace)
          /\ PastUnload(stack[k]) => UnloadedNames(stack[k].trace) = RunningNames
    /\ \A k \in 1..Len(stopLog) :
          /\ InOrder(stopLog[k].trace)
          /\ stopLog[k].init => UnloadedNames(stopLog[k].trace) = RunningNames

C1_Witness ==
    \E k \in 1..Len(stopLog) :
        /\ stopLog[k].outcome = "returned"
        /\ stopLog[k].trace = <<<<"unload", "m1">>, <<"stop", "s1">>, <<"stop", "s2">>,
                                <<"shutdown", "scheduler">>>>

\* C2 (as claimed): every call of stop() ends without an error, and a call that
\* follows another leaves the orchestrator state the first one left.
C2_StopTwiceSameState ==
    \A k \in 1..Len(stopLog) :
        /\ stopLog[k].outcome = "returned"
        /\ k > 1 => stopLog[k].after = stopLog[k - 1].after

\* The shutdown sequence has been completed (state Stopped).
Stopped(entry) == entry.init /\ entry.outcome = "returned"

\* C3 (as claimed): once an execution of stop() has completed the shutdown
\* sequence, a further execution calls neither unload_model, nor a service's
\* stop(), nor the scheduler's shutdown.
C3_StopAfterStoppedIsNoOp ==
    /\ \A k \in 2..Len(stopLog) : Stopped(stopLog[k - 1]) => stopLog[k].trace = <<>>
    /\ (stopLog # <<>> /\ Stopped(stopLog[Len(stopLog)]))
          => \A k \in 1..Len(stack) : stack[k].trace = <<>>

\* C4 (as claimed): an execution of stop() on an initialized orchestrator that
\* has ended, with or without a failed call, has attempted the unload of every
\* running model, called stop() on every initialized service and left the
\* scheduler shut down.
C4_ShutdownBestEffort ==
    \A k \in 1..Len(stopLog) :
        stopLog[k].init =>
            /\ UnloadedNames(stopLog[k].trace) = RunningNames
            /\ InitializedServices \subseteq StoppedServices(stopLog[k].trace)
            /\ ~stopLog[k].after.scheduler

\* C5 (as claimed): a registered service whose validate() has always returned
\* false has not had its thread started, and while there is such a service
\* start() has not got past its validity wait.
C5_InvalidServiceNeverStarted ==
    \A s \in ServiceNames :
        (InSeq(s, services) /\ ~svc[s].valid)
            => /\ svc[s].thread = "new"
               /\ pc \notin (StartPcs \ {"start_validate"})
               /\ ~initialized

-----------------------------------------------------------------------------
\* Properties of the provisioner, checked under SpecOllama.

\* The ps() call was answered, with no resident model.
ReportsNoResident == hasClient /\ bPs = [ok |-> TRUE, models |-> <<>>]

PullCalls == {i \in 1..Len(backendCalls) : backendCalls[i][1] = "pull"}

\* C6: when the backend reports no resident and no available model, a
\* completed initialization has issued exactly one pull, of the fallback model,
\* followed by exactly one load of the same model, and nothing else; before it
\* completes the calls issued are a prefix of those two.
C6_FallbackPulledThenLoaded ==
    (opc \in {"branch", "pulled", "done", "raised"} /\ ReportsNoResident /\ bList = <<>>)
        => /\ \E n \in 0..2 :
                 backendCalls = SubSeq(<<<<"pull", FallbackModel>>, <<"load", FallbackModel>>>>, 1, n)
           /\ opc = "done" => Len(backendCalls) = 2

C6_Witness ==
    /\ opc = "done"
    /\ ReportsNoResident
    /\ bList = <<>>
    /\ backendCalls = <<<<"pull", "llama3.2">>, <<"load", "llama3.2">>>>

\* C7: when the backend reports no resident model and at least one available
\* model, the only call initialization issues is one load of the first listed
\* model; no pull is ever issued.
C7_LoadsFirstAvailable ==
    (opc \in {"branch", "pulled", "done", "raised"} /\ ReportsNoResident /\ bList # <<>>)
        => /\ backendCalls \in {<<>>, <<<<"load", bList[1].name>>>>}
           /\ PullCalls = {}
           /\ opc = "done" => backendCalls # <<>>

C7_Witness ==
    /\ opc = "done"
    /\ ReportsNoResident
    /\ Len(bList) = 2
    /\ bList[1].name = "m1"
    /\ bList[2].name = "llama3.2"
    /\ backendCalls = <<<<"load", "m1">>>>

\* C8 (as claimed): after initialization against a backend that lists the single
\* model m1 and reports no resident model, running_models contains m1 and no
\* pull was made.
C8_RunningContainsLoaded ==
    (opc = "done" /\ ReportsNoResident /\ Len(bList) = 1 /\ bList[1].name = "m1")
        => /\ \E i \in 1..Len(running_models) : running_models[i].name = "m1"
           /\ PullCalls = {}

\* C9 (as claimed): available_models never holds two entries with one digest.
C9_AvailableUniqueByDigest ==
    \A i, j \in 1..Len(available_models) :
        available_models[i].digest = available_models[j].digest => i = j

\* OllamaClient.__init__ returns in the state AfterOllamaInit computes, which
\* is the state Init starts the orchestrator from.
OllamaInitResult ==
    opc = "done" =>
        LET r == AfterOllamaInit(bConnect, bList, bPs)
        IN /\ r.returns
           /\ ollamaInitialized = r.initialized
           /\ available_models = r.available
           /\ running_models = r.running

\* C10: a chat request that carries tools reaches the backend with streaming
\* off, whatever the caller asked for and whatever the configured default.
C10_ToolsNeverStreamed ==
    (chatReq # None /\ chatReq[1].op = "chat" /\ ToolsGiven(chatReq[1].tools))
        => chatReq[1].stream = FALSE

C10_Witness ==
    /\ chatReq # None
    /\ chatReq[1].op = "chat"
    /\ ToolsGiven(chatReq[1].tools)
    /\ chatReq[1].asked = Some(TRUE)
    /\ settingsStream = TRUE
    /\ chatReq[1].stream = FALSE

-----------------------------------------------------------------------------
\* Properties of the scheduler's job, checked under SpecScheduler.

\* The firing at place i of the log is due while the instance started at place
\* p is still executing.
Overlaps(p, i) ==
    /\ p < i
    /\ jobLog[p][1] \in {"run", "missed"}
    /\ ~\E q \in (p + 1)..(i - 1) : jobLog[q] = <<"done", jobLog[p][2]>>

\* C11: at most one instance of the job runs at any time; a firing that is due
\* while an earlier one is still running is skipped, and a skipped firing is
\* the subject of no later entry (it is not run afterwards).
C11_OneInstanceSkipNotQueued ==
    /\ Cardinality(jobRunning) <= 1
    /\ \A i \in 1..Len(jobLog) :
          /\ (jobLog[i][1] \in {"run", "missed", "skip"} /\ \E p \in 1..Len(jobLog) : Overlaps(p, i))
                => jobLog[i][1] = "skip"
          /\ jobLog[i][1] = "skip"
                => \A j \in 1..Len(jobLog) : (j # i) => jobLog[j][2] # jobLog[i][2]

C11_Witness ==
    /\ jobLog = <<<<"run", 1, 0>>, <<"skip", 2, 0>>, <<"done", 1>>, <<"run", 3, 0>>>>
    /\ jobRunning = {3}

\* The models resident in the backend: those it held when ps() was called
\* (none known when the call failed) and those a load call has put there.
ResidentInBackend ==
    {bPs.models[i].name : i \in 1..Len(bPs.models)}
        \cup {backendCalls[i][2] : i \in {j \in 1..Len(backendCalls) : backendCalls[j][1] = "load"}}

\* C12 (as claimed): when __init__ has completed with initialized = True, at
\* least one model is resident in the backend.
C12_ModelResidentAfterInit ==
    (opc = "done" /\ ollamaInitialized) => ResidentInBackend # {}

\* C13 (as claimed): when a statement of the connecting try block fails,
\* __init__ does not raise and leaves initialized = False, and afterwards no
\* operation reaches the backend or returns normally.
C13_ConnectFailureDisablesClient ==
    bConnect # "ok" =>
        /\ opc # "raised"
        /\ ~ollamaInitialized
        /\ chatReq = None
        /\ chatOut # "returned"

-----------------------------------------------------------------------------
\* Properties of the construction, checked under SpecMain.

\* C14 (as claimed): when the setup of the service raises, the service is left
\* with initialized = False, the exception does not reach the orchestrator, and
\* the orchestrator goes on to the validity wait of start().
C14_SetupFailureContained ==
    (hasServices /\ env.token /\ env.setup = "raises" /\ ipc = "returned")
        => /\ ~discord.initialized
           /\ caught = "none"
           /\ signals = 0 => pc \in {"import", "start_validate"}

\* C19: when the provisioner is not initialized, no service is constructed or
\* registered, no thread is started, the scheduler is never built or started
\* and the orchestrator is never marked initialized.
C19_NoProvisionerNoStart ==
    ~ollamaInitialized =>
        /\ discord = NoDiscord
        /\ ipc \notin {"discord_init", "client_run"}
        /\ caught = "none"
        /\ ~hasServices
        /\ services = <<>>
        /\ \A s \in ServiceNames : svc[s].thread = "new"
        /\ thread = "new"
        /\ sched = "none"
        /\ ~initialized

C19_Witness ==
    /\ ~ollamaInitialized
    /\ env.ollama
    /\ pc = "exit"
    /\ Len(stopLog) = 1
    /\ stopLog[1].by = "main"

-----------------------------------------------------------------------------
\* Properties of a service's stop(), checked under SpecService.

\* C15 (as claimed): a call of stop() on a service whose thread was never
\* started returns without an error and leaves the service as it found it.
C15_StopUnstartedIsNoOp ==
    \A s \in ServiceNames : \A k \in 1..Len(svcLog[s]) :
        ~svcLog[s][k].started
            => /\ svcLog[s][k].outcome = "returned"
               /\ svcLog[s][k].after = svcLog[s][k].before

\* A call of stop() that returned on a service whose thread had been started.
StoppedStarted(e) == e.started /\ e.outcome = "returned"

-----------------------------------------------------------------------------
\* Further properties of the orchestrator, checked under Spec.

\* The scheduler and every initialized service that was started have been
\* told to stop.
AllStopped ==
    /\ sched # "running"
    /\ \A s \in ServiceNames :
          (svc[s].initialized /\ svc[s].thread # "new") => ~svc[s].running

\* C16 (as claimed): an execution of stop() begun by a signal that arrived
\* while another execution was in progress ends without an error, and the
\* process then exits with everything stopped.
C16_SignalReentrantSafe ==
    /\ Len(stack) >= 2 => Top.at # "raise"
    /\ \A k \in 1..Len(stopLog) :
          stopLog[k].depth >= 2 => stopLog[k].outcome = "returned"
    /\ (pc = "exit" /\ stopLog # <<>> /\ stopLog[Len(stopLog)].depth >= 2) => AllStopped

\* C17 (as claimed): once start() has completed, and as long as no signal has
\* been delivered, no execution of stop() has begun and the services and the
\* scheduler are left running.
C17_RunsUntilSignalled ==
    (initialized /\ signals = 0)
        => /\ stack = <<>>
           /\ stopLog = <<>>
           /\ pc \notin {"stop", "join", "exit"}
           /\ sched = "running"
           /\ \A s \in ServiceNames : InSeq(s, services) => svc[s].running

SomeServiceValid == \E s \in ServiceNames : InSeq(s, services) /\ svc[s].valid

AllThreadsStarted == \A s \in ServiceNames : InSeq(s, services) => svc[s].thread # "new"

\* C18: while no service reports valid, no service thread, no scheduler and no
\* Program thread has been started and start() is still in its wait, which it
\* leaves only when a service is valid or a signal ends it; the scheduler is
\* started after the thread of every service, and the orchestrator is marked
\* initialized after the scheduler.
C18_StartAfterValidation ==
    /\ ~SomeServiceValid
          => /\ \A s \in ServiceNames : svc[s].thread = "new"
             /\ sched = "none"
             /\ thread = "new"
             /\ ~initialized
             /\ (hasServices /\ signals = 0) => pc = "start_validate"
    /\ (hasServices /\ signals = 0 /\ pc \notin StartPcs) => initialized
    /\ sched \in {"running", "shutdown"} => AllThreadsStarted
    /\ initialized => (sched \in {"running", "shutdown"} /\ AllThreadsStarted)

C18_Witness ==
    /\ initialized
    /\ services = <<"s1", "s2">>
    /\ ~svc["s1"].valid
    /\ svc["s2"].valid
    /\ svc["s1"].thread = "alive"
    /\ svc["s2"].thread = "alive"
    /\ sched = "running"
    /\ signals = 0
    /\ stack = <<>>

-----------------------------------------------------------------------------
\* Further properties of the provisioner, checked under SpecOllama.

\* The ModelInfo of each model the backend reported resident.
ResidentInfos == {CreateModelInfo(bPs.models[i]) : i \in 1..Len(bPs.models)}

\* C21 (as claimed): after a successful initialization against a backend that
\* reports resident models, running_models holds exactly one ModelInfo for
\* each of them, built from the ps() reply, and no load or pull was issued.
C21_RunningMirrorsResident ==
    (opc = "done" /\ ollamaInitialized /\ bPs.ok /\ bPs.models # <<>>)
        => /\ {running_models[i] : i \in 1..Len(running_models)} = ResidentInfos
           /\ Len(running_models) = Cardinality(ResidentInfos)
           /\ backendCalls = <<>>

-----------------------------------------------------------------------------
\* Further properties of the scheduler's job, checked under SpecScheduler.

\* The log entries that record a firing becoming due.
DueEntries == {i \in 1..Len(jobLog) : jobLog[i][1] \in {"run", "missed", "skip"}}

\* C22 (as claimed): a firing more than the grace time late is not executed,
\* and a firing that is at most the grace time late is executed.
C22_MisfireDroppedElseRun ==
    \A i \in DueEntries :
        /\ jobLog[i][3] > MisfireGraceTime => jobLog[i][1] # "run"
        /\ jobLog[i][3] <= MisfireGraceTime => jobLog[i][1] = "run"

\* C22 (amended): a firing more than the grace time late is not executed, and
\* a firing that is at most the grace time late is executed unless an instance
\* of the job is still running, in which case it is skipped.
C22_MisfireDroppedElseRunUnlessBusy ==
    \A i \in DueEntries :
        /\ jobLog[i][3] > MisfireGraceTime => jobLog[i][1] # "run"
        /\ jobLog[i][3] <= MisfireGraceTime
              => IF \E p \in 1..Len(jobLog) : Overlaps(p, i)
                 THEN jobLog[i][1] = "skip"
                 ELSE jobLog[i][1] = "run"

C22_Witness ==
    jobLog = <<<<"missed", 1, 31>>, <<"done", 1>>, <<"run", 2, 30>>, <<"skip", 3, 0>>>>

-----------------------------------------------------------------------------
\* Properties of the orchestrator's threads and of signals during start-up,
\* checked under Spec.

\* The last execution of stop() has returned and none is in progress.
StopHasReturned ==
    /\ stack = <<>>
    /\ stopLog # <<>>
    /\ stopLog[Len(stopLog)].outcome = "returned"

\* C23 (as claimed): once stop() has returned, Program.running is false and
\* stays false, so that the loop of run() ends and join() returns.
C23_RunLoopEndsAfterStop ==
    StopHasReturned => ~running

\* The handler's stop() has returned for a signal delivered inside start(),
\* which sys.exit has unwound to main()'s finally clause.
SignalledInStart ==
    /\ StopHasReturned
    /\ stopLog[Len(stopLog)].by = "signal"
    /\ pc = "finally"

\* C24 (as claimed): when the handler's stop sequence has ended for a signal
\* delivered during start(), no started service and no started scheduler is
\* left running.
C24_SignalInStartStopsStarted ==
    SignalledInStart => AllStopped

\* C26: with an empty service table start() stays in its validity wait until
\* a signal ends it: no thread is started, no scheduler is built or started
\* and the orchestrator is never marked initialized.
C26_EmptyTableWaitsForever ==
    (hasServices /\ services = <<>>)
        => /\ pc \notin (StartPcs \ {"start_validate"})
           /\ signals = 0 => pc = "start_validate"
           /\ thread = "new"
           /\ sched = "none"
           /\ ~initialized

C26_Witness ==
    /\ hasServices
    /\ services = <<>>
    /\ signals = 1
    /\ pc = "exit"
    /\ Len(stopLog) = 2
    /\ sched = "none"

-----------------------------------------------------------------------------
\* The local model view after construction, checked under SpecOllama.

\* C25: once __init__ has returned, no operation of the client (chat,
\* generate, copy_model, pull_model, delete_model, load_model, unload_model and
\* the others) changes available_models or running_models.
C25_OperationsKeepLocalView ==
    [][opc = "done" => /\ available_models' = available_models
                       /\ running_models' = running_models]_vars

C25_Witness ==
    /\ opc = "done"
    /\ chatReq # None
    /\ chatReq[1].op = "unload_model"
    /\ chatOut = "returned"
    /\ running_models # <<>>
    /\ available_models # <<>>

====
